---- MODULE Spec2Model ----
(***************************************************************************)
(* A model of the DICOM -> raster batch convertor (src/utils.py and        *)
(* src/dicom2bmp-convertor.py).                                            *)
(*                                                                         *)
(* Strings that the program inspects, orders or builds (file names, the    *)
(* output format token, the export file name) are sequences of character   *)
(* codes, so that lower(), endswith(), suffix, sorting and formatting are  *)
(* computed as the code computes them.  Strings that are only compared for *)
(* equality (tag values) are TLA+ strings.  A path is the sequence of its  *)
(* parts.                                                                  *)
(***************************************************************************)
EXTENDS Integers, Sequences, FiniteSets, TLC

VARIABLES
    pc,               \* position of the batch call (_dicom_convertor)
    origin_input,     \* argument: [list |-> BOOLEAN, items |-> Seq(path)]
    filetype,         \* argument: a string, or None
    target_root,      \* argument, then the resolved root folder
    anonymous,        \* argument
    multiprocessing,  \* argument
    dicom_file_list,  \* the discovered, sorted list
    tasks,            \* one record per submitted _ds_to_file call
    next_result,      \* index of the result the batch call waits for
    return_message,   \* results collected so far
    outcome,          \* what the batch call gave back: value or exception
    fs_dirs,          \* directories created by the run
    fs_files,         \* files written by the run: path -> 8-bit array
    px                \* the pixel pipeline's input and output (SpecPixel)

vars == <<pc, origin_input, filetype, target_root, anonymous, multiprocessing,
          dicom_file_list, tasks, next_result, return_message, outcome,
          fs_dirs, fs_files, px>>

batch_vars == <<pc, origin_input, filetype, target_root, anonymous,
                multiprocessing, dicom_file_list, tasks, next_result,
                return_message, outcome, fs_dirs, fs_files>>

\* Python's None for an optional string argument and for an optional path
\* argument: the string holding the single code 0, which no token and no
\* file name contains, and the path of that one part
NoneStr == <<0>>
NonePath == <<NoneStr>>

-----------------------------------------------------------------------------
(* Bounds of the model.                                                    *)

\* number of worker processes of the pool (os.cpu_count() of the host)
Workers == 2
\* longest list of input paths handed to the batch call
MaxOrigins == 2

-----------------------------------------------------------------------------
(* Character strings.                                                      *)

\* str.lower() on ASCII: 'A'..'Z' (65..90) become 'a'..'z'
lower(s) == [i \in 1..Len(s) |-> IF s[i] \in 65..90 THEN s[i] + 32 ELSE s[i]]

\* str.endswith(t)
endswith(s, t) ==
    /\ Len(s) >= Len(t)
    /\ SubSeq(s, Len(s) - Len(t) + 1, Len(s)) = t

\* str.rfind('.') as a 1-based index, 0 when there is no dot
RECURSIVE rfind_dot(_, _)
rfind_dot(s, i) ==
    IF i = 0 THEN 0
    ELSE IF s[i] = 46 THEN i
    ELSE rfind_dot(s, i - 1)

\* PurePath.suffix of a file name: the text from the last dot on, unless the
\* dot is the first or the last character
suffix(name) ==
    LET i == rfind_dot(name, Len(name))
    IN IF 1 < i /\ i < Len(name) THEN SubSeq(name, i, Len(name)) ELSE <<>>

\* the order of Python strings / of lists: lexicographic
RECURSIVE str_lt(_, _)
str_lt(a, b) ==
    IF b = <<>> THEN FALSE
    ELSE IF a = <<>> THEN TRUE
    ELSE IF Head(a) < Head(b) THEN TRUE
    ELSE IF Head(a) > Head(b) THEN FALSE
    ELSE str_lt(Tail(a), Tail(b))

\* PurePosixPath.__lt__: the lists of parts, compared lexicographically
RECURSIVE path_lt(_, _)
path_lt(p, q) ==
    IF q = <<>> THEN FALSE
    ELSE IF p = <<>> THEN TRUE
    ELSE IF str_lt(Head(p), Head(q)) THEN TRUE
    ELSE IF str_lt(Head(q), Head(p)) THEN FALSE
    ELSE path_lt(Tail(p), Tail(q))

\* decimal digits of a natural number, as str() gives them
RECURSIVE digits(_)
digits(n) == IF n < 10 THEN <<48 + n>> ELSE Append(digits(n \div 10), 48 + (n % 10))

\* str() of an integer tag value
str_int(n) == IF n < 0 THEN <<45>> \o digits(0 - n) ELSE digits(n)

s_dcm == <<46, 100, 99, 109>>             \* ".dcm"
s_bmp == <<98, 109, 112>>                 \* "bmp"
s_jpg == <<106, 112, 103>>                \* "jpg"
s_JPG == <<74, 80, 71>>                   \* "JPG"
s_png == <<112, 110, 103>>                \* "png"
s_jpeg == <<106, 112, 101, 103>>          \* "jpeg"
s_img == <<105, 109, 103>>                \* "img"
s_tiff == <<116, 105, 102, 102>>          \* "tiff"
s_gif == <<103, 105, 102>>                \* "gif"
s_Ser == <<83, 101, 114>>                 \* "Ser"
s_Ins == <<73, 110, 115>>                 \* "Ins"

-----------------------------------------------------------------------------
(* The file system the batch call is run on.                               *)

n_d1 == <<100, 49>>                       \* "d1"
n_d2 == <<100, 50>>                       \* "d2"
n_s == <<115>>                            \* "s"
n_out == <<111, 117, 116>>                \* "out"
n_zz == <<122, 122>>                      \* "zz" (does not exist)
n_a == <<97, 46, 100, 99, 109>>           \* "a.dcm"
n_b == <<98, 46, 100, 99, 109>>           \* "b.dcm"
n_c == <<99, 46, 100, 99, 109>>           \* "c.dcm"
n_n == <<110, 46, 116, 120, 116>>         \* "n.txt"
n_p == <<112, 46, 100, 99, 109>>          \* "p.dcm"
n_q == <<113, 46, 100, 99, 109>>          \* "q.dcm"
n_X == <<88, 46, 68, 67, 77>>             \* "X.DCM"
n_e == <<101, 46, 100, 99, 109>>          \* "e.dcm"
n_k == <<107, 46, 68, 99, 109>>           \* "k.Dcm"
n_f == <<102, 46, 116, 120, 116>>         \* "f.txt"

Dirs  == { <<n_d1>>, <<n_d2>>, <<n_d2, n_s>> }
Files == { <<n_d1, n_b>>, <<n_d1, n_a>>, <<n_d1, n_c>>, <<n_d1, n_n>>,
           <<n_d2, n_p>>, <<n_d2, n_q>>, <<n_d2, n_s, n_X>>,
           <<n_e>>, <<n_k>>, <<n_f>> }

\* the paths a caller may pass
InputPaths == { <<n_d1>>, <<n_d2>>, <<n_e>>, <<n_k>>, <<n_f>>, <<n_zz>> }

exists(p)  == p \in Dirs \cup Files
is_file(p) == p \in Files
is_dir(p)  == p \in Dirs

\* Path.parent; the parent of a one-part relative path is '.', the empty path
parent(p) == IF p = <<>> THEN <<>> ELSE SubSeq(p, 1, Len(p) - 1)
name_of(p) == p[Len(p)]

\* all enumerations of a finite set as a sequence
RECURSIVE Perms(_)
Perms(S) ==
    IF S = {} THEN { <<>> }
    ELSE UNION { { <<x>> \o r : r \in Perms(S \ {x}) } : x \in S }

\* os.walk(top): the files of top in the order the file system lists them,
\* then the walk of each sub-directory, the sub-directories in the order the
\* file system lists them.  The order is the file system's, so every order
\* is possible; each entry is Path(root) / Path(f).
RECURSIVE WalkOrders(_)
RECURSIVE SubWalks(_)
WalkOrders(top) ==
    LET here == { f \in Files : parent(f) = top }
        subs == { d \in Dirs : parent(d) = top }
    IN { fo \o so : fo \in Perms(here), so \in SubWalks(subs) }
SubWalks(S) ==
    IF S = {} THEN { <<>> }
    ELSE UNION { { w \o r : w \in WalkOrders(d), r \in SubWalks(S \ {d}) } : d \in S }

\* one listing order for every directory
RECURSIVE WalkFns(_)
WalkFns(D) ==
    IF D = {} THEN { <<>> }
    ELSE LET d == CHOOSE x \in D : TRUE
         IN UNION { { (d :> w) @@ f : f \in WalkFns(D \ {d}) } : w \in WalkOrders(d) }

WalkChoices == WalkFns(Dirs)

-----------------------------------------------------------------------------
(* FileDiscovery: _get_root_get_dicom_file_list.                           *)

\* a discovery that leaves the list in the order collected
sort_omitted(s) == s

\* list.sort() on a list of paths (insertion into a sorted prefix)
RECURSIVE insert_sorted(_, _)
insert_sorted(p, s) ==
    IF s = <<>> THEN <<p>>
    ELSE IF path_lt(p, Head(s)) THEN <<p>> \o s
    ELSE <<Head(s)>> \o insert_sorted(p, Tail(s))

RECURSIVE sort(_)
sort(s) == IF s = <<>> THEN <<>> ELSE insert_sorted(s[Len(s)], sort(SubSeq(s, 1, Len(s) - 1)))

\* the loop over origin_list: the first bad origin raises, a file is checked
\* by its suffix and appended, a directory is walked and filtered by name
RECURSIVE scan_origins(_, _, _)
scan_origins(origin_list, walk, acc) ==
    IF origin_list = <<>> THEN [raised |-> "no", list |-> acc]
    ELSE LET origin == Head(origin_list) IN
         IF ~exists(origin) THEN [raised |-> "OSError: does not exist", list |-> <<>>]
         ELSE IF is_file(origin) THEN
              IF lower(suffix(name_of(origin))) # s_dcm
              THEN [raised |-> "Exception: should be a DICOM file", list |-> <<>>]
              ELSE scan_origins(Tail(origin_list), walk, Append(acc, origin))
         ELSE IF is_dir(origin) THEN
              scan_origins(Tail(origin_list), walk,
                  acc \o SelectSeq(walk[origin],
                                   LAMBDA f : endswith(lower(name_of(f)), s_dcm)))
         ELSE scan_origins(Tail(origin_list), walk, acc)

\* the resolved root folder
root_folder(origin, root) ==
    IF root = NonePath THEN parent(origin.items[1]) ELSE root

_get_root_get_dicom_file_list(origin, root, walk) ==
    LET r == scan_origins(origin.items, walk, <<>>)
    IN IF r.raised # "no" THEN r
       ELSE [raised |-> "no", list |-> sort(r.list), root |-> root_folder(origin, root)]

\* a file type check whose list of tokens holds one token too many
filetype_ok_gif(ft) ==
    \/ ft = NoneStr
    \/ lower(ft) \in { s_jpg, s_png, s_jpeg, s_bmp, s_img, s_tiff, s_gif }

\* the file type check at the head of _dicom_convertor
filetype_ok(ft) ==
    \/ ft = NoneStr
    \/ lower(ft) \in { s_jpg, s_png, s_jpeg, s_bmp, s_img, s_tiff }

-----------------------------------------------------------------------------
(* PixelPipeline: _pixel_process and _get_LUT_value_LINEAR_EXACT.          *)
(*                                                                         *)
(* A float array is [shape, nums, den, nan, exact, src, pinned, edge]:      *)
(* element i is the float64 of the value nums[i] / den (den > 0), the      *)
(* elements in row-major order; nan says that every element is             *)
(* not-a-number.  exact says that the floats up to the normalisation are   *)
(* these values themselves: the slope is a binary fraction and every       *)
(* division by the window width came out as one, so that no operation      *)
(* rounded.  Without it each float lies within the rounding error of its   *)
(* value, and three things are open that the values do not decide:         *)
(*  - the cast of a value that is a whole number m may find the float just *)
(*    below m (round_down, see astype_uint8);                              *)
(*  - a comparison of the windowing with a float whose value sits on the   *)
(*    compared number may go either way, and the third branch at           *)
(*    c + w/2 may give data_max or a float next to it (side, see           *)
(*    EdgeSides); edge holds the elements concerned and the side taken.    *)
(*    In an array that is flat by value the normalisation then divides by  *)
(*    the difference of these floats.                                      *)
(* src[i] names the float element i holds: the raw sample it was computed  *)
(* from (equal samples of one array give equal floats), or the sample of   *)
(* data_min or data_max where the windowing stored that.  pinned holds the *)
(* elements the normalisation made 0.0 or 255.0 whatever was rounded.      *)
(* A dataset is a function from the names of the tags it holds to their    *)
(* values: 'X' in ds is "X" \in DOMAIN ds.                                 *)

has(ds, tag) == tag \in DOMAIN ds

RECURSIVE seq_min(_)
seq_min(s) ==
    IF Len(s) = 1 THEN s[1]
    ELSE LET m == seq_min(Tail(s)) IN IF s[1] < m THEN s[1] ELSE m

RECURSIVE seq_max(_)
seq_max(s) ==
    IF Len(s) = 1 THEN s[1]
    ELSE LET m == seq_max(Tail(s)) IN IF s[1] > m THEN s[1] ELSE m

\* n without its factors 2 (n > 0)
RECURSIVE odd_part(_)
odd_part(n) == IF n % 2 = 0 THEN odd_part(n \div 2) ELSE n

\* n/d in lowest terms is a float64 as it stands: d is a power of two (the
\* numerators of the model are far below 2^53)
is_float(d) == odd_part(d) = 1

\* pixel_array * rescale_slope + rescale_intercept, the slope sn/sd in lowest
\* terms and the intercept a whole number; float(ds.RescaleSlope) rounds a
\* slope that is no binary fraction
rescale(a, slope, intercept) ==
    [a EXCEPT !.nums = [i \in 1..Len(a.nums) |->
                            a.nums[i] * slope[1] + intercept * slope[2] * a.den],
              !.den = a.den * slope[2],
              !.exact = a.exact /\ is_float(slope[2])]

\* pydicom's apply_modality_lut on a dataset that holds no Modality LUT
\* Sequence and not both rescale tags: the array is returned as it is
apply_modality_lut(a, ds) == a

\* pydicom's apply_voi_lut on a dataset that holds no VOI LUT Sequence and
\* not both window tags: the array is returned as it is
apply_voi_lut(a, ds) == a

\* the float of element i may differ from its value: the slope was rounded
\* and the sample is not 0 (0 * slope + intercept is the intercept)
fuzzy(a, i) == ~a.exact /\ a.src[i] # 0

\* What the rounding leaves open in _get_LUT_value_LINEAR_EXACT.
\* window > 0, an element whose value is level + window/2 in an array of
\* rounded floats: it is data_max by value, and its float is below (-1),
\* equal to (0) or above (1) the float data_max, as the float passed the
\* comparison and the third branch rounded.  window > 0, a rounded element
\* whose value is level - window/2: data_min (0), or the third branch just
\* above data_min (1) when the float is above the compared number.
\* window <= 0, a rounded element whose value is level + window/2: data_min
\* (0), or data_max (1) when the float is above the compared number.
EdgeSides(data, window, level) ==
    LET d == data.den
        n == Len(data.nums)
        on_hi == { i \in 1..n : 2 * data.nums[i] = (2 * level + window) * d }
        on_lo == { i \in 1..n : 2 * data.nums[i] = (2 * level - window) * d }
    IN IF window > 0
       THEN IF ~data.exact /\ on_hi # {} THEN {-1, 0, 1}
            ELSE IF \E i \in on_lo : fuzzy(data, i) THEN {0, 1}
            ELSE {0}
       ELSE IF \E i \in on_hi : fuzzy(data, i) THEN {0, 1}
       ELSE {0}

\* np.piecewise(data, [data <= level - window/2, data > level + window/2],
\*              [data_min, data_max, lambda: (data - level + window/2)
\*                                            / window * data_range + data_min])
\* Where both conditions hold the later one decides.  The function of the
\* third branch is applied to the elements neither condition selects only:
\* with none (always so when window <= 0) nothing is divided and the result
\* stays over den; otherwise window > 0 and the result is held over the
\* denominator 2 * window * den * den.  (x - level + window/2) / window is
\* part / (2 * den * window): it rounds unless the odd part of the window
\* divides part.  side is one of EdgeSides(data, window, level): with
\* window <= 0 and side 1 the rounded elements on level + window/2 pass the
\* second comparison; with window > 0 the values do not depend on it, and
\* the normalisation looks at it when they are flat.  An element that is
\* given data_min or data_max holds that very float.
_get_LUT_value_LINEAR_EXACT(data, window, level, side) ==
    LET data_min == seq_min(data.nums)
        data_max == seq_max(data.nums)
        data_range == data_max - data_min
        d == data.den
        n == Len(data.nums)
        on_hi == { i \in 1..n : 2 * data.nums[i] = (2 * level + window) * d }
        on_lo == { i \in 1..n : 2 * data.nums[i] = (2 * level - window) * d }
        lo_fuzzy == IF window > 0 THEN { i \in on_lo : fuzzy(data, i) } ELSE {}
        flipped == IF window <= 0 /\ side = 1 THEN { i \in on_hi : fuzzy(data, i) } ELSE {}
        above(i) == 2 * data.nums[i] > (2 * level + window) * d \/ i \in flipped
        below(i) == 2 * data.nums[i] <= (2 * level - window) * d
        linear == { i \in 1..n : ~above(i) /\ ~below(i) }
        scale == IF linear = {} THEN 1 ELSE 2 * window * d
        part(i) == 2 * data.nums[i] - 2 * level * d + window * d
        lut(i) ==
            IF above(i) THEN data_max * scale
            ELSE IF below(i) THEN data_min * scale
            ELSE part(i) * data_range + data_min * scale
        i_min == CHOOSE i \in 1..n : data.nums[i] = data_min
        i_max == CHOOSE i \in 1..n : data.nums[i] = data_max
        held(i) ==
            IF above(i) THEN data.src[i_max]
            ELSE IF below(i) /\ i \notin lo_fuzzy THEN data.src[i_min]
            ELSE data.src[i]
    IN [data EXCEPT !.nums = [i \in 1..n |-> lut(i)],
                    !.den = scale * d,
                    !.exact = data.exact /\ \A i \in linear : part(i) % odd_part(window) = 0,
                    !.src = [i \in 1..n |-> held(i)],
                    !.edge = [idx |-> IF window <= 0 THEN {}
                                      ELSE IF ~data.exact /\ on_hi # {} THEN on_hi
                                      ELSE lo_fuzzy,
                              side |-> side]]

\* the first element of a multi-valued tag, the scalar itself otherwise
first_value(tag) == tag.v[1]

\* the elements of S hold one float
same_float(a, S) == \A i, j \in S : a.src[i] = a.src[j]

\* ((pixel_array - min) / (max - min)) * 255.0; 0/0 is not-a-number.  The
\* elements that hold the least float come out as 0.0 and those that hold
\* the greatest as 1.0 * 255.0: these are the elements of the least
\* (greatest) value when they hold one float.  In an array that is flat by
\* value the floats are equal, and the result not-a-number, unless the
\* windowing left the elements of edge beside the others (side -1 or 1):
\* then the lower float goes to 0.0 and the higher to 255.0.
normalize(a) ==
    LET n == Len(a.nums)
        mn == seq_min(a.nums)
        mx == seq_max(a.nums)
        lo == { i \in 1..n : a.nums[i] = mn }
        hi == { i \in 1..n : a.nums[i] = mx }
    IN IF mx = mn
       THEN IF a.edge.idx # {} /\ a.edge.idx # 1..n /\ a.edge.side # 0
            THEN [a EXCEPT !.nums = [i \in 1..n |->
                                        IF (i \in a.edge.idx) = (a.edge.side = 1)
                                        THEN 255 ELSE 0],
                           !.den = 1,
                           !.pinned = 1..n]
            ELSE [a EXCEPT !.nan = TRUE]
       ELSE [a EXCEPT !.nums = [i \in 1..n |-> (a.nums[i] - mn) * 255],
                      !.den = mx - mn,
                      !.pinned = (IF same_float(a, lo) THEN lo ELSE {})
                                 \cup (IF same_float(a, hi) THEN hi ELSE {})]

\* np.max(pixel_array) - pixel_array: the greatest float is 255.0, so that
\* 0.0 goes to 255.0 and 255.0 to 0.0
invert(a) ==
    LET mx == seq_max(a.nums)
    IN [a EXCEPT !.nums = [i \in 1..Len(a.nums) |-> mx - a.nums[i]]]

\* the integer part of n/d, rounded toward zero
trunc(n, d) == IF n >= 0 THEN n \div d ELSE 0 - ((0 - n) \div d)

\* What a float -> uint8 cast makes of not-a-number is not defined: the
\* conversion instruction of the host decides (0 where it yields the
\* "integer indefinite" value or saturates, 255 where it yields all ones)
NaNCast == {0, 255}

\* The elements whose float may lie just below their value at the cast: the
\* value is a whole number m >= 1, the floats carry a rounding error and the
\* element is not pinned.  (A value that is no whole number is further from
\* the next one than any rounding error.)
may_round_down(a) ==
    IF a.nan \/ a.exact THEN {}
    ELSE { i \in (1..Len(a.nums)) \ a.pinned :
              a.nums[i] >= a.den /\ a.nums[i] % a.den = 0 }

\* what the rounding of the float64 operations can have done to the array
Roundings(a) == SUBSET may_round_down(a)

\* pixel_array.astype('uint8'): the integer part, m - 1 for the elements of
\* round_down, whose float came out below the whole number m
astype_uint8(a, nan_cast, round_down) ==
    [shape |-> a.shape,
     data |-> [i \in 1..Len(a.nums) |->
                  IF a.nan THEN nan_cast
                  ELSE IF i \in round_down THEN (trunc(a.nums[i], a.den) - 1) % 256
                  ELSE trunc(a.nums[i], a.den) % 256]]

\* lines 37-45: the rescale, or the modality LUT
modality_lut(ds, pixel_array) ==
    IF has(ds, "RescaleSlope") /\ has(ds, "RescaleIntercept")
    THEN rescale(pixel_array, ds.RescaleSlope, ds.RescaleIntercept)
    ELSE apply_modality_lut(pixel_array, ds)

\* lines 49-66 take the windowing branch
is_windowed(ds) ==
    /\ ~(has(ds, "VOILUTFunction") /\ ds.VOILUTFunction = "SIGMOID")
    /\ has(ds, "WindowCenter") /\ has(ds, "WindowWidth")

\* the sides open to the call _pixel_process(ds, pixel_array)
pixel_sides(ds, pixel_array) ==
    IF is_windowed(ds)
    THEN EdgeSides(modality_lut(ds, pixel_array), first_value(ds.WindowWidth),
                   first_value(ds.WindowCenter))
    ELSE {0}

\* the array after the LUTs, the normalisation and the inversion, as floats
_pixel_process_float(ds, pixel_array, side) ==
    LET a1 == modality_lut(ds, pixel_array)
        a2 == IF has(ds, "VOILUTFunction") /\ ds.VOILUTFunction = "SIGMOID"
              THEN apply_voi_lut(a1, ds)
              ELSE IF has(ds, "WindowCenter") /\ has(ds, "WindowWidth")
              THEN _get_LUT_value_LINEAR_EXACT(a1, first_value(ds.WindowWidth),
                                               first_value(ds.WindowCenter), side)
              ELSE apply_voi_lut(a1, ds)
        a3 == normalize(a2)
    IN IF has(ds, "PhotometricInterpretation")
          /\ ds.PhotometricInterpretation = "MONOCHROME1"
       THEN invert(a3)
       ELSE a3

_pixel_process(ds, pixel_array, nan_cast, round_down, side) ==
    astype_uint8(_pixel_process_float(ds, pixel_array, side), nan_cast, round_down)

\* pixel_array.astype(float)
astype_float(raw) ==
    [shape |-> raw.shape, nums |-> raw.data, den |-> 1, nan |-> FALSE, exact |-> TRUE,
     src |-> raw.data, pinned |-> {}, edge |-> [idx |-> {}, side |-> 0]]

-----------------------------------------------------------------------------
(* ConversionTask: _ds_to_file, and what it calls.                         *)

\* what pydicom.dcmread(file_path, force=True) gives for each file of the
\* file system above: the tags the program reads, and the decoded samples
uid_pdf == "1.2.840.10008.5.1.4.1.1.104.1"
uid_kos == "1.2.840.10008.5.1.4.1.1.88.59"
uid_ct  == "1.2.840.10008.5.1.4.1.1.2"

dcmread(file_path) ==
    CASE file_path = <<n_d1, n_a>> ->
            [SOPClassUID |-> uid_ct, PhotometricInterpretation |-> "MONOCHROME2",
             RescaleSlope |-> <<1, 1>>, RescaleIntercept |-> 0,
             WindowCenter |-> [multi |-> FALSE, v |-> <<128>>],
             WindowWidth |-> [multi |-> FALSE, v |-> <<256>>],
             SeriesNumber |-> 11, InstanceNumber |-> 2,
             pixel_array |-> [shape |-> <<1, 3>>, data |-> <<0, 128, 256>>]]
      [] file_path = <<n_d1, n_b>> ->
            [SOPClassUID |-> uid_pdf, SeriesNumber |-> 3, InstanceNumber |-> 1]
      [] file_path = <<n_d1, n_c>> ->
            [SOPClassUID |-> uid_ct, PhotometricInterpretation |-> "RGB",
             pixel_array |-> [shape |-> <<1, 2, 3>>, data |-> <<0, 51, 102, 153, 204, 255>>]]
      [] file_path = <<n_d2, n_p>> ->
            [SOPClassUID |-> uid_ct, PhotometricInterpretation |-> "PALETTE COLOR",
             SeriesNumber |-> 2, InstanceNumber |-> 1,
             pixel_array |-> [shape |-> <<1, 2>>, data |-> <<0, 1>>]]
      [] file_path = <<n_d2, n_q>> ->
            \* not a DICOM file: force=True gives a dataset without the tags
            [InstanceNumber |-> 1]
      [] file_path = <<n_d2, n_s, n_X>> ->
            [SOPClassUID |-> uid_ct, PhotometricInterpretation |-> "MONOCHROME2",
             SeriesNumber |-> 4, InstanceNumber |-> 1,
             pixel_array |-> [shape |-> <<2, 1, 2>>, data |-> <<0, 1, 2, 3>>]]
      [] file_path = <<n_e>> ->
            [SOPClassUID |-> uid_ct, PhotometricInterpretation |-> "MONOCHROME1",
             SeriesNumber |-> 1, InstanceNumber |-> 12,
             pixel_array |-> [shape |-> <<1, 3>>, data |-> <<0, 1, 2>>]]
      [] file_path = <<n_k>> ->
            [SOPClassUID |-> uid_kos, SeriesNumber |-> 5]

\* a rejection table without the entry of the key object documents
_is_unsupported_pdf_only(ds) ==
    IF ds.SOPClassUID = uid_pdf THEN "Encapsulated PDF Storage" ELSE "False"

\* the SOP class name when unsupported, "False" when supported
_is_unsupported(ds) ==
    IF ds.SOPClassUID = uid_pdf THEN "Encapsulated PDF Storage"
    ELSE IF ds.SOPClassUID = uid_kos THEN "Key Object Selection Document"
    ELSE "False"

\* the tag as the f-string prints it, the token when the tag is absent
_get_metadata(ds) ==
    [SeriesNumber   |-> IF has(ds, "SeriesNumber") THEN str_int(ds.SeriesNumber) ELSE s_Ser,
     InstanceNumber |-> IF has(ds, "InstanceNumber") THEN str_int(ds.InstanceNumber) ELSE s_Ins]

\* a file name built without the separator between the two numbers
export_file_name_unseparated(SeriesNumber, InstanceNumber, ft) ==
    SeriesNumber \o InstanceNumber \o <<46>> \o ft

\* f"{SeriesNumber}_{InstanceNumber}.{filetype}"
export_file_name(SeriesNumber, InstanceNumber, ft) ==
    SeriesNumber \o <<95>> \o InstanceNumber \o <<46>> \o ft

\* patient_dict is None in every call (full_path_dict = None), so the
\* anonymous branch subscripts None
_get_export_file_path(ds, file_path, root, ft, anon, patient_dict) ==
    IF anon = TRUE
    THEN [raised |-> "TypeError: 'NoneType' object is not subscriptable", path |-> <<>>]
    ELSE LET patient_metadata == _get_metadata(ds)
         IN [raised |-> "no",
             path |-> Append(root, export_file_name(patient_metadata.SeriesNumber,
                                                    patient_metadata.InstanceNumber, ft))]

ColorInterpretations ==
    {"YBR_RCT", "RGB", "YBR_ICT", "YBR_PARTIAL_420", "YBR_FULL_422", "YBR_FULL",
     "PALETTE COLOR"}

\* pixel_array[:, :, [0, 2]] = pixel_array[:, :, [2, 0]] on an array with a
\* third axis: the first and the third entry of the last axis change places
swap_channels(a) ==
    LET ch == a.shape[3]
        at(i) == LET k == (i - 1) % ch
                 IN IF k = 0 THEN a.data[i + 2]
                    ELSE IF k = 2 THEN a.data[i - 2]
                    ELSE a.data[i]
    IN [a EXCEPT !.data = [i \in 1..Len(a.data) |-> at(i)]]

\* lines 168-171: the test on the photometric interpretation and the
\* indexed assignment, which needs three axes
channel_fixup(ds, a) ==
    IF has(ds, "PhotometricInterpretation")
       /\ ds.PhotometricInterpretation \in ColorInterpretations
    THEN IF Len(a.shape) < 3
         THEN [raised |-> "IndexError: too many indices for array", arr |-> a]
         ELSE [raised |-> "no", arr |-> swap_channels(a)]
    ELSE [raised |-> "no", arr |-> a]

\* Path.mkdir(dir, exist_ok=True, parents=True) on a disk that holds the
\* directories on_disk: dir and its parents that are still to be made
mkdir_parents(dir, on_disk) ==
    { SubSeq(dir, 1, k) : k \in 1..Len(dir) } \ on_disk

\* the one os.mkdir can make next: the topmost of them, the others lack
\* their parent
mkdir_next(todo) == CHOOSE d \in todo : \A e \in todo : Len(d) <= Len(e)

\* _ds_to_file from dcmread to the path of the export file (lines 132-174):
\* a return value (the message), an exception, or the array and the path
\* with which it goes on to mkdir
ds_to_file_prepare(file_path, root, ft, anon, patient_dict, nan_cast, round_down, side) ==
    LET ds == dcmread(file_path)
        none == [file_path |-> file_path, st |-> "queued", rv |-> <<>>, exc |-> "",
                 path |-> <<>>,
                 arr |-> [shape |-> <<>>, data |-> <<>>]]
    IN IF ~has(ds, "SOPClassUID")
       THEN [none EXCEPT !.st = "raised", !.exc = "AttributeError: SOPClassUID"]
       ELSE IF _is_unsupported(ds) # "False"
       THEN [none EXCEPT !.st = "returned",
                         !.rv = <<"cannot be converted", _is_unsupported(ds),
                                  "is currently not supported">>]
       ELSE IF ~has(ds, "pixel_array")
       THEN [none EXCEPT !.st = "raised", !.exc = "AttributeError: pixel_array"]
       ELSE LET pixel_array == astype_float(ds.pixel_array)
            IN IF Len(pixel_array.shape) = 3 /\ pixel_array.shape[3] # 3
               THEN [none EXCEPT !.st = "returned",
                                 !.rv = <<"cannot be converted", "Multiframe images",
                                          "are currently not supported">>]
               ELSE LET fixed == channel_fixup(ds, _pixel_process(ds, pixel_array, nan_cast,
                                                                    round_down, side))
                        full_export_fp_fn ==
                            _get_export_file_path(ds, file_path, root, ft, anon, patient_dict)
                    IN IF fixed.raised # "no"
                       THEN [none EXCEPT !.st = "raised", !.exc = fixed.raised]
                       ELSE IF full_export_fp_fn.raised # "no"
                       THEN [none EXCEPT !.st = "raised", !.exc = full_export_fp_fn.raised]
                       ELSE [none EXCEPT !.st = "mkdir", !.path = full_export_fp_fn.path,
                                         !.arr = fixed.arr]

\* the sides and the roundings open to the call on a file: those of the
\* array it windows and casts
task_sides(file_path) ==
    LET ds == dcmread(file_path)
    IN IF has(ds, "pixel_array")
       THEN pixel_sides(ds, astype_float(ds.pixel_array))
       ELSE {0}

task_roundings(file_path, side) ==
    LET ds == dcmread(file_path)
    IN IF has(ds, "pixel_array")
       THEN Roundings(_pixel_process_float(ds, astype_float(ds.pixel_array), side))
       ELSE { {} }

\* cv2.imwrite picks the encoder by the extension of the file name and
\* raises when there is none; "img" names no encoder
has_encoder(ft) == lower(ft) \in { s_jpg, s_jpeg, s_png, s_bmp, s_tiff }

-----------------------------------------------------------------------------
(* BatchOrchestrator: _dicom_convertor and dicom2bmp.                      *)

no_outcome == [kind |-> "none", exc |-> ""]

\* the state at the call _dicom_convertor(origin, target_root, filetype,
\* anonymous, multiprocessing)
_dicom_convertor(origin, root, ft, anon, mp) ==
    /\ pc = "start"
    /\ origin_input = origin
    /\ target_root = root
    /\ filetype = ft
    /\ anonymous = anon
    /\ multiprocessing = mp
    /\ dicom_file_list = <<>>
    /\ tasks = <<>>
    /\ next_result = 1
    /\ return_message = <<>>
    /\ outcome = no_outcome
    /\ fs_dirs = {}
    /\ fs_files = <<>>

dicom2bmp(origin, root, anon, mp) == _dicom_convertor(origin, root, s_bmp, anon, mp)

\* the arguments a caller passes: one path, or a list of paths, no path
\* twice
RECURSIVE SeqsUpTo(_, _)
SeqsUpTo(S, n) ==
    IF n = 0 THEN { <<>> }
    ELSE LET shorter == SeqsUpTo(S, n - 1)
         IN shorter \cup UNION { { Append(q, x) : x \in S \ { q[k] : k \in 1..Len(q) } } :
                                    q \in { r \in shorter : Len(r) = n - 1 } }

Origins ==
    { [list |-> FALSE, items |-> <<p>>] : p \in InputPaths }
    \cup { [list |-> TRUE, items |-> q] : q \in SeqsUpTo(InputPaths, MaxOrigins) \ { <<>> } }
TargetRoots == { NonePath, <<n_out, n_d1>> }
FileTypes == { NoneStr, s_JPG, s_img, s_gif }

InitBatch ==
    /\ px = [st |-> "off"]
    /\ \E origin \in Origins, root \in TargetRoots, anon \in BOOLEAN, mp \in BOOLEAN :
          \/ dicom2bmp(origin, root, anon, mp)
          \/ \E ft \in FileTypes : _dicom_convertor(origin, root, ft, anon, mp)

\* lines 194-201: the file type check, then the discovery; either raises
Validate ==
    /\ pc = "start"
    /\ \E walk \in WalkChoices :
          IF ~filetype_ok(filetype)
          THEN /\ pc' = "raised"
               /\ outcome' = [kind |-> "exception",
                              exc |-> "Exception: Target file type should be jpg, png, or bmp"]
               /\ UNCHANGED <<filetype, target_root, dicom_file_list>>
          ELSE LET r == _get_root_get_dicom_file_list(origin_input, target_root, walk)
               IN IF r.raised # "no"
                  THEN /\ pc' = "raised"
                       /\ outcome' = [kind |-> "exception", exc |-> r.raised]
                       /\ UNCHANGED <<filetype, target_root, dicom_file_list>>
                  ELSE /\ pc' = "dispatch"
                       /\ filetype' = IF filetype = NoneStr THEN s_bmp ELSE filetype
                       /\ target_root' = r.root
                       /\ dicom_file_list' = r.list
                       /\ UNCHANGED outcome
    /\ UNCHANGED <<origin_input, anonymous, multiprocessing, tasks, next_result,
                   return_message, fs_dirs, fs_files, px>>

\* lines 205-208 / 212: one _ds_to_file call per discovered file; the pool
\* is handed all of them at once, the sequential loop calls them in turn
Dispatch ==
    /\ pc = "dispatch"
    /\ tasks' = [i \in 1..Len(dicom_file_list) |->
                    [file_path |-> dicom_file_list[i], st |-> "queued", rv |-> <<>>,
                     exc |-> "", path |-> <<>>, arr |-> [shape |-> <<>>, data |-> <<>>]]]
    /\ pc' = "collect"
    /\ UNCHANGED <<origin_input, filetype, target_root, anonymous, multiprocessing,
                   dicom_file_list, next_result, return_message, outcome,
                   fs_dirs, fs_files, px>>

finished(t) == t.st \in {"returned", "raised"}

\* a call is in a worker process of the pool, or is the call the
\* sequential loop is in
busy(t) == t.st \in {"running", "mkdir", "write"}

\* when call i may begin: the workers of the pool take the calls in the
\* order submitted, each worker one call at a time; the sequential loop
\* begins call i when it is its turn
may_start(i) ==
    IF multiprocessing = TRUE
    THEN /\ pc \in {"collect", "unwind"}
         /\ \A j \in 1..(i - 1) : tasks[j].st # "queued"
         /\ Cardinality({ j \in 1..Len(tasks) : busy(tasks[j]) }) < Workers
    ELSE /\ pc = "collect"
         /\ i = next_result

\* a worker of the pool takes call i (line 207), or the loop of line 212
\* enters it: _ds_to_file begins.  The calls the workers hold go on side
\* by side, and end in any order.
TaskStart(i) ==
    /\ tasks[i].st = "queued"
    /\ may_start(i)
    /\ tasks' = [tasks EXCEPT ![i].st = "running"]
    /\ UNCHANGED <<pc, origin_input, filetype, target_root, anonymous, multiprocessing,
                   dicom_file_list, next_result, return_message, outcome,
                   fs_dirs, fs_files, px>>

\* _ds_to_file, lines 132-174: from dcmread to the path of the export
\* file; the call ends here with its message or its exception, or goes on
\* to Path.mkdir with the array and the path
TaskRun(i) ==
    /\ tasks[i].st = "running"
    /\ \E nan_cast \in NaNCast, side \in task_sides(tasks[i].file_path) :
       \E round_down \in task_roundings(tasks[i].file_path, side) :
          tasks' = [tasks EXCEPT ![i] =
                       ds_to_file_prepare(tasks[i].file_path, target_root, filetype,
                                          anonymous, NonePath, nan_cast, round_down, side)]
    /\ UNCHANGED <<pc, origin_input, filetype, target_root, anonymous, multiprocessing,
                   dicom_file_list, next_result, return_message, outcome,
                   fs_dirs, fs_files, px>>

\* _ds_to_file, line 176: Path.mkdir(parents=True, exist_ok=True) makes the
\* directories that are not there one os.mkdir at a time, from the topmost
\* down, and the steps of the other workers come between them; a directory
\* another call made meanwhile is passed over (exist_ok).  An os.mkdir
\* fails when the destination is not writable.  With all of them there the
\* call goes on to the write.
TaskMkdir(i) ==
    /\ tasks[i].st = "mkdir"
    /\ LET todo == mkdir_parents(parent(tasks[i].path), Dirs \cup fs_dirs)
       IN \E mkdir_ok \in BOOLEAN :
             IF ~mkdir_ok
             THEN /\ tasks' = [tasks EXCEPT ![i].st = "raised",
                                            ![i].exc = "PermissionError: mkdir"]
                  /\ UNCHANGED fs_dirs
             ELSE IF todo = {}
             THEN /\ tasks' = [tasks EXCEPT ![i].st = "write"]
                  /\ UNCHANGED fs_dirs
             ELSE /\ fs_dirs' = fs_dirs \cup { mkdir_next(todo) }
                  /\ UNCHANGED tasks
    /\ UNCHANGED <<pc, origin_input, filetype, target_root, anonymous, multiprocessing,
                   dicom_file_list, next_result, return_message, outcome, fs_files, px>>

\* _ds_to_file, lines 178-184: cv2.imwrite, whose result is not looked at,
\* then return True
TaskWrite(i) ==
    /\ tasks[i].st = "write"
    /\ IF ~has_encoder(filetype)
       THEN /\ tasks' = [tasks EXCEPT ![i].st = "raised",
                                      ![i].exc = "cv2.error: could not find a writer"]
            /\ UNCHANGED fs_files
       ELSE \E written \in BOOLEAN :
               /\ tasks' = [tasks EXCEPT ![i].st = "returned", ![i].rv = <<"True">>]
               /\ fs_files' = IF written
                              THEN (tasks[i].path :> tasks[i].arr) @@ fs_files
                              ELSE fs_files
    /\ UNCHANGED <<pc, origin_input, filetype, target_root, anonymous, multiprocessing,
                   dicom_file_list, next_result, return_message, outcome, fs_dirs, px>>

\* future.result() of line 209, or the value of the call in line 212: the
\* return value joins return_message, an exception of the call is raised
\* again in the batch call
Collect ==
    /\ pc = "collect"
    /\ next_result <= Len(tasks)
    /\ finished(tasks[next_result])
    /\ IF tasks[next_result].st = "returned"
       THEN /\ return_message' = Append(return_message, tasks[next_result].rv)
            /\ next_result' = next_result + 1
            /\ UNCHANGED <<pc, outcome>>
       ELSE /\ UNCHANGED <<return_message, next_result>>
            /\ IF multiprocessing = TRUE
               THEN pc' = "unwind" /\ UNCHANGED outcome
               ELSE /\ pc' = "raised"
                    /\ outcome' = [kind |-> "exception", exc |-> tasks[next_result].exc]
    /\ UNCHANGED <<origin_input, filetype, target_root, anonymous, multiprocessing,
                   dicom_file_list, tasks, fs_dirs, fs_files, px>>

\* the exception leaves the with block of line 206: the executor waits for
\* the calls it was handed, then the exception leaves the batch call
Unwind ==
    /\ pc = "unwind"
    /\ \A j \in 1..Len(tasks) : finished(tasks[j])
    /\ pc' = "raised"
    /\ outcome' = [kind |-> "exception", exc |-> tasks[next_result].exc]
    /\ UNCHANGED <<origin_input, filetype, target_root, anonymous, multiprocessing,
                   dicom_file_list, tasks, next_result, return_message,
                   fs_dirs, fs_files, px>>

\* line 215: return True
Return ==
    /\ pc = "collect"
    /\ next_result > Len(tasks)
    /\ pc' = "returned"
    /\ outcome' = [kind |-> "value", exc |-> "True"]
    /\ UNCHANGED <<origin_input, filetype, target_root, anonymous, multiprocessing,
                   dicom_file_list, tasks, next_result, return_message,
                   fs_dirs, fs_files, px>>

Next ==
    \/ Validate
    \/ Dispatch
    \/ \E i \in 1..Len(tasks) : TaskStart(i)
    \/ \E i \in 1..Len(tasks) : TaskRun(i)
    \/ \E i \in 1..Len(tasks) : TaskMkdir(i)
    \/ \E i \in 1..Len(tasks) : TaskWrite(i)
    \/ Collect
    \/ Unwind
    \/ Return

Init == InitBatch

Spec == Init /\ [][Next]_vars

-----------------------------------------------------------------------------
(* The pixel pipeline on its own: _pixel_process applied to bounded raw    *)
(* sample arrays and metadata, once per photometric interpretation.        *)

\* number of samples of the raw array
ArrLen == 3

SampleValues == { -2, 0, 1, 20, 128, 256 }

RawArrays ==
    { [shape |-> <<1, ArrLen>>, data |-> d] : d \in [1..ArrLen -> SampleValues] }

\* the rescale tags a dataset may hold
RescaleChoices ==
    << <<>>,
       [RescaleSlope |-> <<1, 1>>, RescaleIntercept |-> 0],
       [RescaleSlope |-> <<1, 2>>, RescaleIntercept |-> 0],
       [RescaleSlope |-> <<2, 1>>, RescaleIntercept |-> -1],
       [RescaleSlope |-> <<1, 10>>, RescaleIntercept |-> 0],
       [RescaleSlope |-> <<1, 1>>] >>

\* the window tags a dataset may hold: scalars, or multi-valued
WindowChoices ==
    << <<>>,
       [WindowCenter |-> [multi |-> FALSE, v |-> <<128>>],
        WindowWidth  |-> [multi |-> FALSE, v |-> <<256>>]],
       [WindowCenter |-> [multi |-> TRUE, v |-> <<1, 128>>],
        WindowWidth  |-> [multi |-> TRUE, v |-> <<2, 256>>]],
       [WindowCenter |-> [multi |-> FALSE, v |-> <<128>>],
        WindowWidth  |-> [multi |-> FALSE, v |-> <<255>>]],
       [WindowCenter |-> [multi |-> FALSE, v |-> <<2>>],
        WindowWidth  |-> [multi |-> FALSE, v |-> <<0>>]],
       [WindowCenter |-> [multi |-> FALSE, v |-> <<128>>]] >>

\* the VOI LUT function tag; SIGMOID comes without the window tags here
VoiChoices ==
    << <<>>, [VOILUTFunction |-> "LINEAR"], [VOILUTFunction |-> "SIGMOID"] >>

Polarities == { "MONOCHROME1", "MONOCHROME2" }

InitPixel ==
    /\ pc = "off"
    /\ origin_input = [list |-> FALSE, items |-> <<>>]
    /\ target_root = NonePath
    /\ filetype = NoneStr
    /\ anonymous = FALSE
    /\ multiprocessing = FALSE
    /\ dicom_file_list = <<>>
    /\ tasks = <<>>
    /\ next_result = 1
    /\ return_message = <<>>
    /\ outcome = no_outcome
    /\ fs_dirs = {}
    /\ fs_files = <<>>
    /\ \E raw \in RawArrays, r \in 1..Len(RescaleChoices), w \in 1..Len(WindowChoices),
          v \in 1..Len(VoiChoices), nan_cast \in NaNCast :
          /\ ~(has(VoiChoices[v], "VOILUTFunction") /\ VoiChoices[v].VOILUTFunction = "SIGMOID"
               /\ has(WindowChoices[w], "WindowCenter") /\ has(WindowChoices[w], "WindowWidth"))
          /\ px = [st |-> "in",
                   ds |-> RescaleChoices[r] @@ WindowChoices[w] @@ VoiChoices[v],
                   raw |-> raw,
                   nan_cast |-> nan_cast,
                   float |-> <<>>,
                   out |-> <<>>]

\* the dataset of the call: the tags, with the photometric interpretation
with_polarity(ds, pi) == ("PhotometricInterpretation" :> pi) @@ ds

\* _pixel_process(ds, ds.pixel_array.astype(float)) for one photometric
\* interpretation of the same samples and tags
PixelProcess ==
    /\ px.st = "in"
    /\ \E pi \in Polarities \ DOMAIN px.out :
          LET ds == with_polarity(px.ds, pi)
              pixel_array == astype_float(px.raw)
          IN \E side \in pixel_sides(ds, pixel_array) :
             \E round_down \in Roundings(_pixel_process_float(ds, pixel_array, side)) :
                px' = [px EXCEPT
                         !.float = (pi :> _pixel_process_float(ds, pixel_array, side))
                                   @@ px.float,
                         !.out = (pi :> _pixel_process(ds, pixel_array, px.nan_cast,
                                                       round_down, side)) @@ px.out]
    /\ UNCHANGED batch_vars

NextPixel == PixelProcess

SpecPixel == InitPixel /\ [][NextPixel]_vars

-----------------------------------------------------------------------------
(* Properties of the batch call (checked under Spec).                      *)

ValidationErrors ==
    { "Exception: Target file type should be jpg, png, or bmp",
      "OSError: does not exist",
      "Exception: should be a DICOM file" }

batch_over == pc \in {"returned", "raised"}
validation_failed == pc = "raised" /\ outcome.exc \in ValidationErrors
task_raised(i) == tasks[i].st = "raised"
task_written(i) == tasks[i].st = "returned" /\ tasks[i].rv = <<"True">>
task_skipped(i) == tasks[i].st = "returned" /\ tasks[i].rv # <<"True">>

\* C1: per-file failure isolation.  In parallel and in sequential mode alike,
\* a failing _ds_to_file call is caught at the task boundary and recorded as
\* that file's result, every other file's call still runs to completion and
\* reports its result, and no per-file failure leaves the batch call: once
\* the batch call is over after dispatch, it has returned, every call has
\* finished and there is one result per file.
C1_FailureIsolation ==
    (batch_over /\ ~validation_failed) =>
        /\ pc = "returned"
        /\ \A i \in 1..Len(tasks) : finished(tasks[i])
        /\ Len(return_message) = Len(tasks)

\* C2: batch success is independent of the per-file outcomes.  Whenever the
\* validation passed, the batch call returns True whatever mix of Written,
\* Skipped and Failed the files gave, with one result per discovered file.
C2_BatchSuccess ==
    (batch_over /\ ~validation_failed) =>
        /\ outcome = [kind |-> "value", exc |-> "True"]
        /\ Len(return_message) = Len(dicom_file_list)

\* an input the validation must refuse: a path that does not exist, an
\* explicitly passed file without the .dcm suffix, a format token outside
\* the recognized set
bad_origin(p) ==
    \/ p \notin Dirs \cup Files
    \/ p \in Files /\ ~endswith(lower(name_of(p)), s_dcm)
bad_filetype ==
    /\ filetype # NoneStr
    /\ lower(filetype) \notin { s_jpg, s_jpeg, s_png, s_bmp, s_tiff, s_img }
input_invalid ==
    \/ bad_filetype
    \/ \E k \in 1..Len(origin_input.items) : bad_origin(origin_input.items[k])

\* C3: fatal validation precedes all work.  With a missing path, an explicit
\* non-.dcm file or an unrecognized format token among the arguments, at any
\* position of the list, the batch call never gets past the validation: no
\* call of _ds_to_file is created or started, no directory is made, no file
\* is written, and the call ends with an exception.
C3_ValidationFirst ==
    input_invalid =>
        /\ pc \in {"start", "raised"}
        /\ tasks = <<>>
        /\ dicom_file_list = <<>>
        /\ fs_dirs = {}
        /\ fs_files = <<>>
        /\ pc = "raised" => outcome.kind = "exception" /\ outcome.exc \in ValidationErrors

\* C3 witness: the call aborted on a list whose first path is a good
\* directory and whose second path does not exist.
C3_Witness ==
    /\ pc = "raised"
    /\ Len(origin_input.items) = 2
    /\ origin_input.items[1] \in Dirs
    /\ origin_input.items[2] \notin Dirs \cup Files
    /\ ~bad_filetype

\* the dataset of a file is one the task must skip
in_rejection_table(f) ==
    /\ has(dcmread(f), "SOPClassUID")
    /\ dcmread(f).SOPClassUID \in { uid_pdf, uid_kos }
is_multiframe(f) ==
    /\ has(dcmread(f), "SOPClassUID")
    /\ ~in_rejection_table(f)
    /\ has(dcmread(f), "pixel_array")
    /\ Len(dcmread(f).pixel_array.shape) = 3
    /\ dcmread(f).pixel_array.shape[3] # 3

C4_step ==
    \A i \in 1..Len(tasks) :
        (tasks[i].st = "running" /\ tasks'[i].st # "running"
            /\ (in_rejection_table(tasks[i].file_path) \/ is_multiframe(tasks[i].file_path)))
        => /\ tasks'[i].st = "returned"
           /\ tasks'[i].rv[1] = "cannot be converted"
           /\ in_rejection_table(tasks[i].file_path) =>
                 tasks'[i].rv[2] \in {"Encapsulated PDF Storage", "Key Object Selection Document"}
           /\ is_multiframe(tasks[i].file_path) => tasks'[i].rv[2] = "Multiframe images"
           /\ tasks'[i].path = <<>>
           /\ fs_dirs' = fs_dirs
           /\ fs_files' = fs_files

\* C4: skipped files write nothing.  The step of a task whose dataset has a
\* SOP class of the rejection table, or a 3-axis sample array whose last
\* axis is not 3, ends the task with the message carrying the reason,
\* resolves no export path and leaves the directories and the files of the
\* file system as they were.
C4_SkippedWritesNothing == [][C4_step]_vars

\* C4 witness: a PDF dataset and a multiframe dataset were both skipped in a
\* batch in which another task did write its file.
C4_Witness ==
    /\ \E i \in 1..Len(tasks) : task_skipped(i) /\ tasks[i].rv[2] = "Encapsulated PDF Storage"
    /\ \E i \in 1..Len(tasks) : task_skipped(i) /\ tasks[i].rv[2] = "Multiframe images"
    /\ fs_files # <<>>

\* the explicitly passed files, and the .dcm files (case-insensitive) below
\* the passed directories
expected_files ==
    { p \in Files : \E k \in 1..Len(origin_input.items) : origin_input.items[k] = p }
    \cup { f \in Files :
             /\ \E k \in 1..Len(origin_input.items) :
                   LET o == origin_input.items[k]
                   IN o \in Dirs /\ Len(f) > Len(o) /\ SubSeq(f, 1, Len(o)) = o
             /\ endswith(lower(name_of(f)), s_dcm) }

\* C8: discovery result.  Once the validation has passed, the file list
\* holds exactly the explicitly passed files and the files below the passed
\* directories whose name ends in .dcm in any letter case, in ascending
\* order of path whatever order the file system listed them in; the
\* directory holding b.dcm, a.dcm, c.dcm (and n.txt) yields a, b, c.
C8_Discovery ==
    (pc \notin {"start", "raised", "off"}) =>
        /\ { dicom_file_list[i] : i \in 1..Len(dicom_file_list) } = expected_files
        /\ \A i, j \in 1..Len(dicom_file_list) :
              i < j => ~path_lt(dicom_file_list[j], dicom_file_list[i])
        /\ origin_input.items = << <<n_d1>> >> =>
              dicom_file_list = << <<n_d1, n_a>>, <<n_d1, n_b>>, <<n_d1, n_c>> >>

\* C8 witness: two directories, one with a sub-directory and an upper-case
\* suffix, were discovered together.
C8_Witness ==
    /\ pc = "dispatch"
    /\ origin_input.items = << <<n_d2>>, <<n_d1>> >>
    /\ Len(dicom_file_list) = 6
    /\ dicom_file_list[6] = <<n_d2, n_s, n_X>>

\* the (series, instance) pair of a file's dataset; an absent tag is <<>>
series_instance(f) ==
    << IF has(dcmread(f), "SeriesNumber") THEN <<dcmread(f).SeriesNumber>> ELSE <<>>,
       IF has(dcmread(f), "InstanceNumber") THEN <<dcmread(f).InstanceNumber>> ELSE <<>> >>
has_path(i) == tasks[i].st \in {"mkdir", "write"} \/ task_written(i)
key_text(k, token) == IF k = <<>> THEN token ELSE str_int(k[1])

\* C9: path resolution.  In non-anonymous mode the export path of a task is
\* target_root / "{SeriesNumber}_{InstanceNumber}.{format}", with Ser and
\* Ins for absent tags, and two tasks of one batch whose (series, instance)
\* pairs differ never hold the same export path, at any point of any
\* interleaving of the workers.
C9_PathResolution ==
    /\ \A i \in 1..Len(tasks) :
          has_path(i) =>
              LET k == series_instance(tasks[i].file_path)
                  nm == name_of(tasks[i].path)
                  se == key_text(k[1], s_Ser)
                  in == key_text(k[2], s_Ins)
              IN /\ anonymous = FALSE
                 /\ parent(tasks[i].path) = target_root
                 /\ Len(nm) = Len(se) + Len(in) + Len(filetype) + 2
                 /\ SubSeq(nm, 1, Len(se)) = se
                 /\ nm[Len(se) + 1] = 95
                 /\ SubSeq(nm, Len(se) + 2, Len(se) + 1 + Len(in)) = in
                 /\ nm[Len(se) + Len(in) + 2] = 46
                 /\ SubSeq(nm, Len(se) + Len(in) + 3, Len(nm)) = filetype
    /\ \A i, j \in 1..Len(tasks) :
          (has_path(i) /\ has_path(j)
              /\ series_instance(tasks[i].file_path) # series_instance(tasks[j].file_path))
          => tasks[i].path # tasks[j].path

\* C9 witness: the tasks of series 11 instance 2 and of series 1 instance
\* 12 are both at their write in the pool, and a task without the tags has
\* written.
C9_Witness ==
    /\ multiprocessing = TRUE
    /\ \E i, j, k \in 1..Len(tasks) :
          /\ tasks[i].st = "write" /\ tasks[i].file_path = <<n_d1, n_a>>
          /\ tasks[j].st = "write" /\ tasks[j].file_path = <<n_e>>
          /\ task_written(k) /\ tasks[k].file_path = <<n_d1, n_c>>

\* what the task holds for writing according to the claim: the quantized
\* array with the entries 0 and 2 of the channel axis exchanged when the
\* interpretation is a colour one and there is a channel axis, the quantized
\* array itself otherwise
claimed_array(f, a) ==
    IF has(dcmread(f), "PhotometricInterpretation")
       /\ dcmread(f).PhotometricInterpretation \in
             {"YBR_RCT", "RGB", "YBR_ICT", "YBR_PARTIAL_420", "YBR_FULL_422", "YBR_FULL",
              "PALETTE COLOR"}
       /\ Len(a.shape) = 3
    THEN [shape |-> a.shape,
          data |-> [n \in 1..Len(a.data) |->
                       IF n % 3 = 1 THEN a.data[n + 2]
                       ELSE IF n % 3 = 0 THEN a.data[n - 2] ELSE a.data[n]]]
    ELSE a

\* C10: channel convention fix-up.  After quantization the task exchanges
\* channel 0 and channel 2 exactly when the photometric interpretation is a
\* colour one and the array has a channel axis; with a colour interpretation
\* and a two-axis array the array is left as it is and the task goes on to
\* path resolution and writing instead of failing.
C10_ChannelFixup ==
    \A i \in 1..Len(tasks) :
        LET f == tasks[i].file_path
            ds == dcmread(f)
        IN (tasks[i].st \notin {"queued", "running"}
                /\ has(ds, "SOPClassUID") /\ has(ds, "pixel_array")
                /\ ~in_rejection_table(f) /\ ~is_multiframe(f))
           => /\ tasks[i].exc # "IndexError: too many indices for array"
              /\ has_path(i) =>
                    \E nan_cast \in NaNCast, side \in task_sides(f) :
                    \E round_down \in task_roundings(f, side) :
                       tasks[i].arr = claimed_array(f,
                           _pixel_process(ds, astype_float(ds.pixel_array), nan_cast,
                                          round_down, side))

-----------------------------------------------------------------------------
(* Properties of the pixel pipeline (checked under SpecPixel).             *)

both_done == DOMAIN px.out = Polarities

\* C5: inversion symmetry.  For the same raw samples and the same tags, the
\* 8-bit output under MONOCHROME1 is 255 minus the 8-bit output under
\* MONOCHROME2 at every element, also where the normalized value is not a
\* whole number before the truncation.  (Arrays that are flat at the
\* normalisation are the case of C6 and are left aside here.)
C5_InversionSymmetry ==
    (both_done /\ ~px.float["MONOCHROME2"].nan) =>
        \A i \in 1..Len(px.raw.data) :
            px.out["MONOCHROME1"].data[i] = 255 - px.out["MONOCHROME2"].data[i]

\* C6: degenerate range.  For an array of one constant value the pipeline
\* produces no not-a-number value and every output sample is 0.
C6_DegenerateRange ==
    \A pi \in DOMAIN px.out :
        (\A i \in 1..Len(px.raw.data) : px.raw.data[i] = px.raw.data[1]) =>
            /\ ~px.float[pi].nan
            /\ \A i \in 1..Len(px.raw.data) : px.out[pi].data[i] = 0

set_min(S) == CHOOSE m \in S : \A x \in S : m <= x
set_max(S) == CHOOSE m \in S : \A x \in S : m >= x

\* the tags the windowing claim is about
windowed ==
    /\ has(px.ds, "RescaleSlope") /\ has(px.ds, "RescaleIntercept")
    /\ has(px.ds, "WindowCenter") /\ has(px.ds, "WindowWidth")
    /\ ~(has(px.ds, "VOILUTFunction") /\ px.ds.VOILUTFunction = "SIGMOID")
    /\ "MONOCHROME2" \in DOMAIN px.out

\* C7: windowing result.  With slope sn/sd, intercept b, centre c and width
\* w (the first element of a multi-valued tag), every sample goes to
\* x = raw * slope + b, then to y = dmin if x <= c - w/2, dmax if
\* x > c + w/2, ((x - c + w/2) / w) * (dmax - dmin) + dmin otherwise, dmin
\* and dmax the least and the greatest x, and the output is
\* (y - ymin) / (ymax - ymin) * 255 cut to its integer part; and with
\* slope 1, intercept 0, centre 128, width 256 a sample 0 gives 0, a sample
\* 256 gives 255 and a sample 128 gives 127, 128 or 129, whatever the other
\* samples of the array are.  Below, X is x times sd and Y is y times
\* K * sd, K = 2 * w * sd (1 for the width 0, which divides nothing).
\* (Arrays that are flat at the normalisation are the case of C6 and are
\* left aside here.)
C7_Windowing ==
    (windowed /\ ~px.float["MONOCHROME2"].nan) =>
        LET sn == px.ds.RescaleSlope[1]
            sd == px.ds.RescaleSlope[2]
            b  == px.ds.RescaleIntercept
            c  == px.ds.WindowCenter.v[1]
            w  == px.ds.WindowWidth.v[1]
            n  == Len(px.raw.data)
            X(i) == px.raw.data[i] * sn + b * sd
            Xmin == set_min({ X(i) : i \in 1..n })
            Xmax == set_max({ X(i) : i \in 1..n })
            K == IF w = 0 THEN 1 ELSE 2 * w * sd
            Y(i) == IF 2 * X(i) <= (2 * c - w) * sd THEN K * Xmin
                    ELSE IF 2 * X(i) > (2 * c + w) * sd THEN K * Xmax
                    ELSE (2 * X(i) - 2 * c * sd + w * sd) * (Xmax - Xmin) + K * Xmin
            Ymin == set_min({ Y(i) : i \in 1..n })
            Ymax == set_max({ Y(i) : i \in 1..n })
            out  == px.out["MONOCHROME2"].data
            plain == /\ sn = 1 /\ sd = 1 /\ b = 0 /\ c = 128 /\ w = 256
        IN /\ Ymax > Ymin =>
                 \A i \in 1..n :
                    /\ out[i] * (Ymax - Ymin) <= 255 * (Y(i) - Ymin)
                    /\ 255 * (Y(i) - Ymin) < (out[i] + 1) * (Ymax - Ymin)
           /\ plain =>
                 \A i \in 1..n :
                    /\ px.raw.data[i] = 0 => out[i] = 0
                    /\ px.raw.data[i] = 256 => out[i] = 255
                    /\ px.raw.data[i] = 128 => out[i] \in {127, 128, 129}

====
